---- MODULE Spec2Model ----
(***************************************************************************)
(* Model of src/main.py: the PyQt5 image compression client.               *)
(*                                                                         *)
(* MainWindow lives in the GUI thread.  Every tracked image has one        *)
(* ImageItemWidget; every start of a compression creates one               *)
(* ImageCompressThread.  The signals of a thread are connected to plain    *)
(* Python callables, so every emission made in the worker thread is posted *)
(* to the event queue of the GUI thread and handled there, one event at a  *)
(* time, in posting order.                                                 *)
(*                                                                         *)
(* Modelling decisions that are not visible in a single source line:       *)
(*  - an unhandled Python exception in a slot (add_images) ends the        *)
(*    process (PyQt5 >= 5.5 calls qFatal): its threads and its event queue *)
(*    are gone, the model keeps what the window held at that moment and    *)
(*    sets crashed, after which nothing happens;                           *)
(*  - QThread.terminate() "may or may not" stop the thread at once (Qt     *)
(*    documentation) and clear_all does not wait(): a terminated worker    *)
(*    either stops or runs on, the choice is left open;                    *)
(*  - QFileDialog.getOpenFileNames runs a nested event loop before the     *)
(*    body of add_images: the events that were already posted when         *)
(*    clear_all ran have been handled by the time the body runs;           *)
(*  - the loop "for i in range(101)" is sampled every ProgressStride       *)
(*    values, the first value being 0;                                     *)
(*  - all files are in one directory, so a path is its base name and the   *)
(*    output path of run() is computed from it as os.path.splitext does;   *)
(*  - of the file system only one fact per run is kept: whether the run    *)
(*    has created or changed the file at its output path;                  *)
(*  - the result of a run carries its two paths; the sizes and the ratio   *)
(*    are followed apart from the events, in SpecRatio, as whole numbers   *)
(*    of hundredths of a percent, and the output paths of the runs for a   *)
(*    wider choice of file names in SpecPaths;                             *)
(*  - of a message box only the parts its text is built from are kept,     *)
(*    and of the status bar the percentage, in tenths of a percent.        *)
(***************************************************************************)
EXTENDS Integers, Sequences, FiniteSets, TLC

\* ------------------------------------------------------------------ bounds
MaxThreads == 2
MaxQueue == 1
ProgressStride == 100
MaxSize == 10

\* ------------------------------------------------------- program constants
RangeStop == 101
FullProgress == 100

\* ImageItemWidget.status / status_label texts
StatusPending == "pending"        \* "等待中"
StatusProcessing == "processing"  \* "压缩中..."
StatusFailed == "failed"          \* "压缩失败"
LabelCompleted == "completed"     \* "已完成"

\* the name filter the file dialog of add_images is opened with:
\*   "图片文件 (*.jpg *.jpeg *.png *.webp)"
NameFilter == {".jpg", ".jpeg", ".png", ".webp"}

\* the files the user can select in the dialog: the name filter only decides
\* what the dialog lists, a name typed into it is returned whatever its
\* extension, and add_images does not look at the extension
Paths == {"a.png", "b.gif"}

\* os.path.splitext on a name without directory: the extension starts at the
\* last dot, unless the name has no dot or only dots before its last dot
Dots(name) == {k \in 1..Len(name) : SubSeq(name, k, k) = "."}
LastDot(name) == CHOOSE k \in Dots(name) : \A j \in Dots(name) : j <= k
splitext(name) ==
    IF Dots(name) = {} \/ \A j \in 1..(LastDot(name) - 1) : j \in Dots(name)
    THEN <<name, "">>
    ELSE <<SubSeq(name, 1, LastDot(name) - 1), SubSeq(name, LastDot(name), Len(name))>>

\* run(): output_path = join(dirname(image_path), f"{name}_compressed{ext}")
output_path(image_path) ==
    splitext(image_path)[1] \o "_compressed" \o splitext(image_path)[2]

\* --------------------------------------------------------- Python values
\* Signal arguments are Python objects of different types; a value carries
\* its type so that "key in dict" can be evaluated as Python does.
PyStr(x) == [tag |-> "str", s |-> x, n |-> 0]
PyInt(x) == [tag |-> "int", s |-> "", n |-> x]
None == [tag |-> "None", original_path |-> "", output_path |-> ""]
ResultDict(path) ==
    [tag |-> "dict", original_path |-> path, output_path |-> output_path(path)]
Truthy(result) == result.tag = "dict"

VARIABLES
    image_list,             \* QListWidget rows = insertion order of image_items
    image_items,            \* path -> widget
    compress_threads,       \* path -> thread id
    completed_images,       \* list of result dicts
    pending_count,
    processing_count,
    completed_count,
    batch_download_enabled, \* batch_download_button.isEnabled()
    threads,                \* every ImageCompressThread created so far
    queue,                  \* events posted to the GUI thread, oldest first
    observed,               \* thread id -> events of it handed to its slots
    crashed,                \* the process was aborted by an unhandled exception
    zip_result,             \* create_zip, save_images: the loop variable result, None outside the loop
    zipf,                   \* the entries written to the archive (the files copied to save_dir), in order
    zip_tasks,              \* the paths whose task was Completed when the batch operation began
    zip_box,                \* the message box the batch operation ends with, "" if none is open
    batch_op,               \* "zip" inside create_zip, "save" inside save_images, "" outside
    batch_start,            \* completed_images as it was when the batch operation began
    status_message,         \* statusBar(): <<>> for "就绪", <<tenths of a percent>> in a batch loop
    box_text,               \* the parts of the text of the message box, <<>> if none is open
    original_size,          \* run(): os.path.getsize(self.image_path)
    compressed_size,        \* run(): os.path.getsize(output_path)
    compression_ratio,      \* run(): <<>> until computed, then <<hundredths of a percent>>
    outputs                 \* run(): thread id -> the output_path it has computed

\* the state of a batch download
batchVars == <<zip_result, zipf, zip_tasks, zip_box,
              batch_op, batch_start, status_message, box_text>>
\* what run() computes and Spec leaves alone: the sizes one run() measures,
\* the ratio it computes from them, the output paths of the runs
ratioVars == <<original_size, compressed_size, compression_ratio, outputs>>
sideVars == <<batchVars, ratioVars>>

vars == <<image_list, image_items, compress_threads, completed_images,
          pending_count, processing_count, completed_count,
          batch_download_enabled, threads, queue, observed, crashed,
          zip_result, zipf, zip_tasks, zip_box,
          batch_op, batch_start, status_message, box_text,
          original_size, compressed_size, compression_ratio, outputs>>

mainVars == <<image_list, image_items, compress_threads, completed_images,
              pending_count, processing_count, completed_count,
              batch_download_enabled>>

Range(seq) == {seq[k] : k \in 1..Len(seq)}
IndexOf(seq, x) == CHOOSE k \in 1..Len(seq) : seq[k] = x

\* ------------------------------------------------------- ImageItemWidget
ImageItemWidget == [status |-> StatusPending, label |-> StatusPending,
                    progress |-> 0, download_visible |-> FALSE]

\* progress_bar.setValue(value): value is the Python object the slot was given
update_progress(widget, value) == [widget EXCEPT !.progress = value.n]

\* faulty variant of update_status: only the label text is set, widget.status
\* keeps its value (C18 must notice)
update_status_LabelOnly(widget, status) == [widget EXCEPT !.label = status]

update_status(widget, status) == [widget EXCEPT !.status = status, !.label = status]

update_result(widget, result) ==
    IF Truthy(result)
    THEN [widget EXCEPT !.label = LabelCompleted, !.progress = FullProgress,
                        !.download_visible = TRUE]
    ELSE [widget EXCEPT !.label = StatusFailed]

\* --------------------------------------------------- ImageCompressThread
ImageCompressThread(path) ==
    [image_path |-> path, pc |-> "start", i |-> 0, terminated |-> FALSE,
     raised |-> FALSE, wrote |-> FALSE, sent |-> <<>>]

isRunning(t) == t.pc \notin {"done", "dead"}

ProgressEvent(w, path, value) ==
    [kind |-> "progress", wid |-> w, path |-> path, percent |-> value,
     result |-> None, old |-> FALSE]
FinishedEvent(w, path, result) ==
    [kind |-> "finished", wid |-> w, path |-> path, percent |-> 0,
     result |-> result, old |-> FALSE]

\* signal.emit from the worker thread: the call is posted to the GUI thread
\* what the histories sent and observed keep of an event
Seen(ev) == [kind |-> ev.kind, percent |-> ev.percent, result |-> ev.result.tag]

\* wrote: the run has created or changed the file at its output path
Emit(w, ev, nextpc, nexti, raised, wrote) ==
    /\ Len(queue) < MaxQueue
    /\ queue' = Append(queue, ev)
    /\ threads' = [threads EXCEPT ![w].pc = nextpc, ![w].i = nexti,
                                  ![w].raised = raised, ![w].wrote = wrote,
                                  ![w].sent = Append(@, Seen(ev))]

\* the pairs <<original size, compressed size>> a run is followed for: the
\* small ones, the documented example (1,000,000 bytes compressed to 400,000),
\* its reverse, and two pairs whose exact ratio lies half way between two
\* hundredths (3.125 and -3.125)
SizePairs ==
    ((1..MaxSize) \X (0..MaxSize))
        \cup {<<1000000, 400000>>, <<400000, 1000000>>, <<32, 31>>, <<32, 33>>}

\* (1 - compressed_size / original_size) * 100, in hundredths of a percent:
\* <<the largest integer not above it, what is left over (in units of
\* 1/original_size of a hundredth)>>, by long division
Hundredths(osize, csize) ==
    LET percent == (100 * (osize - csize)) \div osize
        left == (100 * (osize - csize)) % osize
    IN <<100 * percent + (100 * left) \div osize, (100 * left) % osize>>

\* faulty variant of round2: the digits after the second decimal are cut off
\* (C14 must notice)
round2_Truncating(osize, csize) == {Hundredths(osize, csize)[1]}

\* round((1 - compressed_size / original_size) * 100, 2), in hundredths of a
\* percent: the nearest hundredth; when the exact value lies half way between
\* two hundredths the binary floating point value is on either side of it,
\* so round() can return either neighbour
round2(osize, csize) ==
    LET h == Hundredths(osize, csize)
    IN IF 2 * h[2] > osize THEN {h[1] + 1}
       ELSE IF 2 * h[2] = osize THEN {h[1], h[1] + 1}
       ELSE {h[1]}

InitWindow ==
    /\ image_list = <<>>
    /\ image_items = <<>>
    /\ compress_threads = <<>>
    /\ completed_images = <<>>
    /\ pending_count = 0
    /\ processing_count = 0
    /\ completed_count = 0
    /\ batch_download_enabled = FALSE
    /\ threads = <<>>
    /\ queue = <<>>
    /\ observed = <<>>
    /\ crashed = FALSE
    /\ zip_result = None
    /\ zipf = <<>>
    /\ zip_tasks = {}
    /\ zip_box = ""
    /\ batch_op = ""
    /\ batch_start = <<>>
    /\ status_message = <<>>
    /\ box_text = <<>>
    /\ outputs = <<>>

\* run() is looked at in three ways: Spec follows its events and leaves the
\* sizes and the output paths alone, SpecRatio follows the computation of the
\* ratio for every pair of sizes a run can measure, SpecPaths follows the
\* output paths of the runs for the names the user can select.
Init ==
    /\ InitWindow
    /\ original_size = 1
    /\ compressed_size = 1
    /\ compression_ratio = <<>>

\* run(): os.path.getsize(image_path) or Image.open(image_path) raises;
\* the except clause emits compress_finished(image_path, None)
WorkerOpenFail(w) ==
    /\ ~crashed
    /\ threads[w].pc = "start"
    /\ Emit(w, FinishedEvent(w, threads[w].image_path, None), "done", threads[w].i, TRUE,
            FALSE)
    /\ UNCHANGED <<mainVars, observed, crashed, sideVars>>

\* faulty variant of WorkerProgress: the loop emits 100 - i (C5 must notice)
WorkerProgress_CountDown(w) ==
    /\ ~crashed
    /\ threads[w].pc \in {"start", "loop"}
    /\ LET t == threads[w]
           next == t.i + ProgressStride
       IN Emit(w, ProgressEvent(w, t.image_path, FullProgress - t.i),
               IF next < RangeStop THEN "loop" ELSE "save",
               IF next < RangeStop THEN next ELSE t.i, FALSE, FALSE)
    /\ UNCHANGED <<mainVars, observed, crashed, sideVars>>

\* run(): one turn of "for i in range(101)" (the first one follows the
\* successful getsize and open): progress_update.emit(image_path, i)
WorkerProgress(w) ==
    /\ ~crashed
    /\ threads[w].pc \in {"start", "loop"}
    /\ LET t == threads[w]
           next == t.i + ProgressStride
       IN Emit(w, ProgressEvent(w, t.image_path, t.i),
               IF next < RangeStop THEN "loop" ELSE "save",
               IF next < RangeStop THEN next ELSE t.i, FALSE, FALSE)
    /\ UNCHANGED <<mainVars, observed, crashed, sideVars>>

\* faulty variant of WorkerSaveFail: the exception leaves run() and nothing
\* is emitted (C4 must notice)
WorkerSaveFail_Escapes(w, wroteFile) ==
    /\ ~crashed
    /\ threads[w].pc = "save"
    /\ threads' = [threads EXCEPT ![w].pc = "done", ![w].raised = TRUE,
                                  ![w].wrote = wroteFile]
    /\ UNCHANGED <<mainVars, queue, observed, crashed, sideVars>>

\* run(): image.save(output_path, ...) or os.path.getsize(output_path) raises;
\* the except clause emits compress_finished(image_path, None).
\* wroteFile: Image.save opens output_path for writing (an existing file is
\* emptied) before it encodes, so a save that raises may or may not have
\* created or changed the file, and a getsize that raises comes after the
\* save; run() removes or restores nothing.
WorkerSaveFail(w, wroteFile) ==
    /\ ~crashed
    /\ threads[w].pc = "save"
    /\ Emit(w, FinishedEvent(w, threads[w].image_path, None), "done", threads[w].i, TRUE,
            wroteFile)
    /\ UNCHANGED <<mainVars, observed, crashed, sideVars>>

\* run(): save and getsize succeed; progress_update.emit(image_path, 100)
WorkerEmit100(w) ==
    /\ ~crashed
    /\ threads[w].pc = "save"
    /\ Emit(w, ProgressEvent(w, threads[w].image_path, FullProgress), "emitfin", threads[w].i,
            FALSE, TRUE)
    /\ UNCHANGED <<mainVars, observed, crashed, sideVars>>

\* run(): self.compress_finished.emit(self.image_path, result)
WorkerEmitFinished(w) ==
    /\ ~crashed
    /\ threads[w].pc = "emitfin"
    /\ Emit(w, FinishedEvent(w, threads[w].image_path, ResultDict(threads[w].image_path)),
            "done", threads[w].i, FALSE, TRUE)
    /\ UNCHANGED <<mainVars, observed, crashed, sideVars>>

\* a thread on which terminate() was called stops: nothing of its run is
\* left but what it has posted, its record keeps the path and the two flags
WorkerDie(w) ==
    /\ ~crashed
    /\ threads[w].terminated
    /\ isRunning(threads[w])
    /\ threads' = [threads EXCEPT ![w] = [ImageCompressThread(@.image_path) EXCEPT
                                            !.pc = "dead", !.terminated = TRUE]]
    /\ UNCHANGED <<mainVars, queue, observed, crashed, sideVars>>

\* ------------------------------------------------------------ MainWindow
KeyIn(key, items) == key.tag = "str" /\ key.s \in DOMAIN items

\* faulty variant of NewPaths: the test "file_path not in self.image_items"
\* is left out (C1 must notice)
NewPaths_NoDedup(file_paths, upto) == SubSeq(file_paths, 1, upto)

\* the paths of file_paths[1..upto] that add_images registers, in order
NewPaths(file_paths, upto) ==
    SelectSeq(SubSeq(file_paths, 1, upto), LAMBDA p : p \notin DOMAIN image_items)

\* faulty variant of PendingRows: the test of widget.status is left out and
\* every row is started (C16 must notice)
PendingRows_All(list, items) == list

\* the rows start_compression starts: those whose widget.status is "等待中"
PendingRows(list, items) == SelectSeq(list, LAMBDA p : items[p].status = StatusPending)

\* the selections the file dialog can return: distinct paths, in any order
Batches ==
    {b \in UNION {[1..n -> Paths] : n \in 0..Cardinality(Paths)} :
        \A j, k \in 1..Len(b) : j # k => b[j] # b[k]}

\* start_compression(), given the rows and widgets add_images has built
start_compression(list, items, pending) ==
    LET rows == PendingRows(list, items)
        started == Range(rows)
        base == Len(threads)
    IN /\ base + Len(rows) <= MaxThreads
       /\ threads' = threads \o [k \in 1..Len(rows) |-> ImageCompressThread(rows[k])]
       /\ observed' = observed \o [k \in 1..Len(rows) |-> <<>>]
       /\ compress_threads' =
            [p \in DOMAIN compress_threads \cup started |->
                IF p \in started THEN base + IndexOf(rows, p) ELSE compress_threads[p]]
       /\ image_items' =
            [p \in DOMAIN items |->
                IF p \in started THEN update_status(items[p], StatusProcessing) ELSE items[p]]
       /\ processing_count' = processing_count + Len(rows)
       /\ pending_count' = pending - Len(rows)

\* add_images(): file_paths is what the dialog returned; failAt is the index of
\* the path whose ImageItemWidget(file_path) raises (os.path.getsize), 0 for none
add_images(file_paths, failAt) ==
    LET upto == IF failAt = 0 THEN Len(file_paths) ELSE failAt - 1
        new == NewPaths(file_paths, upto)
        list == image_list \o new
        items == [p \in DOMAIN image_items \cup Range(new) |->
                    IF p \in Range(new) THEN ImageItemWidget ELSE image_items[p]]
        pending == pending_count + Len(new)
    IN /\ image_list' = list
       /\ IF failAt = 0
          THEN /\ start_compression(list, items, pending)
               /\ UNCHANGED <<crashed, queue>>
          ELSE /\ image_items' = items
               /\ pending_count' = pending
               /\ crashed' = TRUE
               /\ threads' = <<>>
               /\ observed' = <<>>
               /\ queue' = <<>>
               /\ UNCHANGED <<compress_threads, processing_count>>
       /\ UNCHANGED <<completed_images, completed_count, batch_download_enabled>>

\* the "添加图片" button or menu entry, once the dialog has returned file_paths
AddImagesWith(file_paths, failAt) ==
    /\ ~crashed
    /\ zip_box = ""
    /\ \A k \in 1..Len(queue) : ~queue[k].old
    /\ failAt # 0 => file_paths[failAt] \notin DOMAIN image_items
    /\ add_images(file_paths, failAt)
    /\ IF failAt = 0
       THEN UNCHANGED batchVars
       ELSE /\ zip_result' = None /\ zipf' = <<>> /\ zip_tasks' = {} /\ zip_box' = ""
            /\ batch_op' = "" /\ batch_start' = <<>>
            /\ status_message' = <<>> /\ box_text' = <<>>
    /\ UNCHANGED ratioVars

AddImages ==
    \E file_paths \in Batches : \E failAt \in 0..Len(file_paths) :
        AddImagesWith(file_paths, failAt)

\* update_compress_progress(image_path, value)
update_compress_progress(image_path, value) ==
    /\ image_items' =
         IF KeyIn(image_path, image_items)
         THEN [image_items EXCEPT ![image_path.s] = update_progress(@, value)]
         ELSE image_items
    /\ crashed' = (KeyIn(image_path, image_items) /\ value.tag # "int")

\* the slot connected to progress_update:
\*   lambda value, path=image_path: self.update_compress_progress(path, value)
\* called with the two arguments of the signal, in the order of the signal
progress_slot(arg1, arg2) == update_compress_progress(arg2, arg1)

\* faulty variant of handle_compress_finished: the batch download button is
\* never enabled (C19 must notice)
handle_compress_finished_NoEnable(image_path, result) ==
    IF image_path \in DOMAIN image_items
    THEN /\ image_items' =
              [image_items EXCEPT ![image_path] =
                  IF Truthy(result) THEN update_result(@, result)
                  ELSE update_status(@, StatusFailed)]
         /\ completed_images' =
              IF Truthy(result) THEN Append(completed_images, result) ELSE completed_images
         /\ completed_count' = IF Truthy(result) THEN completed_count + 1 ELSE completed_count
         /\ processing_count' = processing_count - 1
         /\ UNCHANGED batch_download_enabled
    ELSE UNCHANGED <<image_items, completed_images, completed_count, processing_count,
                     batch_download_enabled>>

\* handle_compress_finished(image_path, result)
handle_compress_finished(image_path, result) ==
    IF image_path \in DOMAIN image_items
    THEN LET done == IF Truthy(result) THEN completed_count + 1 ELSE completed_count
         IN /\ image_items' =
                 [image_items EXCEPT ![image_path] =
                     IF Truthy(result) THEN update_result(@, result)
                     ELSE update_status(@, StatusFailed)]
            /\ completed_images' =
                 IF Truthy(result) THEN Append(completed_images, result) ELSE completed_images
            /\ completed_count' = done
            /\ processing_count' = processing_count - 1
            /\ batch_download_enabled' = (done > 0 \/ batch_download_enabled)
    ELSE UNCHANGED <<image_items, completed_images, completed_count, processing_count,
                     batch_download_enabled>>

\* the GUI thread handles the oldest posted progress_update emission
DeliverProgress ==
    /\ ~crashed
    /\ queue # <<>>
    /\ Head(queue).kind = "progress"
    /\ LET ev == Head(queue)
       IN /\ progress_slot(PyStr(ev.path), PyInt(ev.percent))
          /\ observed' = [observed EXCEPT ![ev.wid] = Append(@, Seen(ev))]
    /\ queue' = Tail(queue)
    /\ UNCHANGED <<image_list, compress_threads, completed_images, pending_count,
                   processing_count, completed_count, batch_download_enabled, threads,
                   sideVars>>

\* the GUI thread handles the oldest posted compress_finished emission:
\*   on_compress_finished(path, result, img_path=image_path)
DeliverFinished ==
    /\ ~crashed
    /\ queue # <<>>
    /\ Head(queue).kind = "finished"
    /\ LET ev == Head(queue)
       IN /\ handle_compress_finished(threads[ev.wid].image_path, ev.result)
          /\ observed' = [observed EXCEPT ![ev.wid] = Append(@, Seen(ev))]
    /\ queue' = Tail(queue)
    /\ UNCHANGED <<image_list, compress_threads, pending_count, threads, crashed,
                   sideVars>>

\* download_image(image_path): the outcome its loop over completed_images
\* finds (the first one whose original_path is image_path), None if there is
\* none; with an outcome the file at its output_path is offered for copying,
\* without one only the warning "未找到压缩结果" is shown
download_image(image_path) ==
    LET found == {k \in 1..Len(completed_images) :
                     completed_images[k].original_path = image_path}
    IN IF found = {}
       THEN None
       ELSE completed_images[CHOOSE k \in found : \A j \in found : k <= j]

\* faulty variant of clear_all: completed_count is not reset (C8 must notice)
clear_all_KeepsCount ==
    /\ threads' =
         [w \in 1..Len(threads) |->
            IF w \in Range([k \in 1..Len(image_list) |-> compress_threads[image_list[k]]])
               /\ isRunning(threads[w])
            THEN [threads[w] EXCEPT !.terminated = TRUE]
            ELSE threads[w]]
    /\ image_list' = <<>>
    /\ image_items' = <<>>
    /\ compress_threads' = <<>>
    /\ completed_images' = <<>>
    /\ pending_count' = 0
    /\ processing_count' = 0
    /\ batch_download_enabled' = FALSE
    /\ UNCHANGED completed_count

\* clear_all()
clear_all ==
    /\ threads' =
         [w \in 1..Len(threads) |->
            IF w \in Range([k \in 1..Len(image_list) |-> compress_threads[image_list[k]]])
               /\ isRunning(threads[w])
            THEN [threads[w] EXCEPT !.terminated = TRUE]
            ELSE threads[w]]
    /\ image_list' = <<>>
    /\ image_items' = <<>>
    /\ compress_threads' = <<>>
    /\ completed_images' = <<>>
    /\ pending_count' = 0
    /\ processing_count' = 0
    /\ completed_count' = 0
    /\ batch_download_enabled' = FALSE

ClearAll ==
    /\ ~crashed
    /\ zip_box = ""
    /\ clear_all
    /\ queue' = [k \in 1..Len(queue) |-> [queue[k] EXCEPT !.old = TRUE]]
    /\ UNCHANGED <<observed, crashed, sideVars>>

\* ------------------------------------------------------ batch download
\* create_zip and save_images run in the GUI thread, and their loops are the
\* same but for the call that writes.  Every turn takes the next item of
\* completed_images (the list iterator keeps an index and looks at the list
\* as it is at that moment), shows the percentage (i + 1) / len * 100 with the
\* length the list has at that moment, calls QApplication.processEvents(),
\* which handles every posted event and every click made meanwhile
\* (add_images and clear_all run to their end inside it), and then writes the
\* item it took.  A second batch download started inside processEvents is
\* left out.
\* The message box a batch operation ends with is modal: until it is closed
\* the window takes no click (no add_images, no clear_all, no batch
\* download), while posted events are still handled.

\* f"{progress:.1f}" for progress = k / n * 100, in tenths of a percent: the
\* nearest tenth; where k / n * 100 lies halfway between two tenths the float
\* arithmetic decides, and both are possible
Percent1f(k, n) ==
    LET q == (k * 1000) \div n
        r == (k * 1000) % n
    IN IF 2 * r < n THEN {q} ELSE IF 2 * r > n THEN {q + 1} ELSE {q, q + 1}

\* str(e) for the OSError of zipf.write / shutil.copy2: strerror and filename
BatchErrors == {"No such file or directory", "Permission denied"}

\* the texts of the four message boxes, without the path they end with:
\* "压缩包已创建: ", "创建压缩包失败: ", "图片已保存到: ", "保存图片失败: "
BoxText(op, box) ==
    IF op = "zip"
    THEN IF box = "success" THEN "archive created" ELSE "creating the archive failed"
    ELSE IF box = "success" THEN "images saved to" ELSE "saving the images failed"

\* the loop head of create_zip / save_images for the first item
batch_begin(op) ==
    /\ ~Truthy(zip_result)
    /\ zip_box = ""
    /\ completed_images # <<>>
    /\ zip_result' = completed_images[1]
    /\ zipf' = <<>>
    /\ zip_tasks' = {p \in DOMAIN image_items : image_items[p].label = LabelCompleted}
    /\ zip_box' = ""
    /\ batch_op' = op
    /\ batch_start' = completed_images
    /\ status_message' \in {<<t>> : t \in Percent1f(1, Len(completed_images))}
    /\ box_text' = <<>>
    /\ UNCHANGED <<mainVars, threads, queue, observed, crashed, ratioVars>>

\* processEvents() has returned, the item is written and the iterator has a
\* next item: the loop head for that item
batch_next(op) ==
    /\ Truthy(zip_result)
    /\ batch_op = op
    /\ queue = <<>>
    /\ Len(zipf) + 1 < Len(completed_images)
    /\ zipf' = Append(zipf, zip_result.output_path)
    /\ zip_result' = completed_images[Len(zipf) + 2]
    /\ status_message' \in
          {<<t>> : t \in Percent1f(Len(zipf) + 2, Len(completed_images))}
    /\ UNCHANGED <<mainVars, threads, queue, observed, crashed, zip_tasks, zip_box,
                   batch_op, batch_start, box_text, ratioVars>>

\* processEvents() has returned, the item is written and the iterator is
\* exhausted: showMessage("就绪") and QMessageBox.information
batch_last(op) ==
    /\ Truthy(zip_result)
    /\ batch_op = op
    /\ queue = <<>>
    /\ Len(zipf) + 1 >= Len(completed_images)
    /\ zipf' = Append(zipf, zip_result.output_path)
    /\ zip_result' = None
    /\ zip_box' = "success"
    /\ status_message' = <<>>
    /\ box_text' = <<BoxText(op, "success"), IF op = "zip" THEN "zip_path" ELSE "save_dir">>
    /\ UNCHANGED <<mainVars, threads, queue, observed, crashed, zip_tasks,
                   batch_op, batch_start, ratioVars>>

\* processEvents() has returned and the write raises e: the except clause,
\* showMessage("就绪") and QMessageBox.critical with str(e)
batch_fail(op) ==
    /\ Truthy(zip_result)
    /\ batch_op = op
    /\ queue = <<>>
    /\ zip_result' = None
    /\ zip_box' = "error"
    /\ status_message' = <<>>
    /\ \E strerror \in BatchErrors :
          box_text' = <<BoxText(op, "error"), strerror, zip_result.output_path>>
    /\ UNCHANGED <<mainVars, threads, queue, observed, crashed, zipf, zip_tasks,
                   batch_op, batch_start, ratioVars>>

\* batch_download(), answered with a directory and "Yes": create_zip up to the
\* first processEvents()
BatchDownloadZip ==
    /\ ~crashed
    /\ batch_begin("zip")

\* create_zip(): zipf.write(result['output_path'], arcname) succeeds and the
\* iterator has a next item
ZipWriteNext ==
    /\ ~crashed
    /\ batch_next("zip")

\* create_zip(): zipf.write succeeds and the iterator is exhausted: the
\* archive is closed and the box "成功" is shown
ZipWriteLast ==
    /\ ~crashed
    /\ batch_last("zip")

\* create_zip(): zipf.write raises (the output file is gone or unreadable):
\* the archive is closed as it is and the box "错误" is shown
ZipWriteFail ==
    /\ ~crashed
    /\ batch_fail("zip")

\* batch_download(), answered with a directory and "No": save_images up to the
\* first processEvents()
BatchDownloadSave ==
    /\ ~crashed
    /\ batch_begin("save")

\* save_images(): shutil.copy2(result['output_path'], save_path) succeeds and
\* the iterator has a next item
SaveCopyNext ==
    /\ ~crashed
    /\ batch_next("save")

\* save_images(): shutil.copy2 succeeds and the iterator is exhausted: the
\* box "成功" is shown
SaveCopyLast ==
    /\ ~crashed
    /\ batch_last("save")

\* save_images(): shutil.copy2 raises (the output file is gone, save_dir is
\* the directory it is in, the disk is full): the files copied so far stay
\* and the box "错误" is shown
SaveCopyFail ==
    /\ ~crashed
    /\ batch_fail("save")

\* the user closes the message box and create_zip / save_images returns
ZipBoxClosed ==
    /\ ~crashed
    /\ zip_box # ""
    /\ zip_box' = ""
    /\ zipf' = <<>>
    /\ zip_tasks' = {}
    /\ batch_op' = ""
    /\ batch_start' = <<>>
    /\ box_text' = <<>>
    /\ UNCHANGED <<mainVars, threads, queue, observed, crashed, zip_result,
                   status_message, ratioVars>>

Workers == 1..Len(threads)

Next ==
    \/ AddImages
    \/ DeliverProgress
    \/ DeliverFinished
    \/ ClearAll
    \/ BatchDownloadZip
    \/ ZipWriteNext
    \/ ZipWriteLast
    \/ ZipWriteFail
    \/ BatchDownloadSave
    \/ SaveCopyNext
    \/ SaveCopyLast
    \/ SaveCopyFail
    \/ ZipBoxClosed
    \/ \E w \in Workers : WorkerOpenFail(w)
    \/ \E w \in Workers : WorkerProgress(w)
    \/ \E w \in Workers : \E wroteFile \in BOOLEAN : WorkerSaveFail(w, wroteFile)
    \/ \E w \in Workers : WorkerEmit100(w)
    \/ \E w \in Workers : WorkerEmitFinished(w)
    \/ \E w \in Workers : WorkerDie(w)

Spec == Init /\ [][Next]_vars

\* ------------------------------------------------------ the ratio of run()
\* getsize(image_path) returned a positive size (Image.open fails on an
\* empty file, and then the ratio is never computed)
InitRatio ==
    /\ InitWindow
    /\ \E pair \in SizePairs : original_size = pair[1] /\ compressed_size = pair[2]
    /\ compression_ratio = <<>>

\* run(): compression_ratio = round((1 - compressed_size / original_size) * 100, 2)
ComputeRatio ==
    /\ compression_ratio = <<>>
    /\ compression_ratio' \in {<<r>> : r \in round2(original_size, compressed_size)}
    /\ UNCHANGED <<mainVars, threads, queue, observed, crashed, batchVars,
                   original_size, compressed_size, outputs>>

NextRatio == ComputeRatio

SpecRatio == InitRatio /\ [][NextRatio]_vars

\* ------------------------------------------------ the output paths of run()
\* the names the user can select in one directory: with and without
\* extension, with several dots, with a leading dot, and the name run()
\* gives to the compressed a.png
PathNames == {"a.png", "b.gif", "a_compressed.png", "a", "a.b.png", ".a"}

\* the selections the file dialog can return, of as many paths as threads
\* can be started
PathBatches ==
    {b \in UNION {[1..n -> PathNames] : n \in 1..MaxThreads} :
        \A j, k \in 1..Len(b) : j # k => b[j] # b[k]}

\* add_images(file_paths) for a selection of these names, no widget raising
AddPaths ==
    \E file_paths \in PathBatches :
        /\ AddImagesWith(file_paths, 0)
        /\ outputs' = outputs

\* run(): name, ext = os.path.splitext(os.path.basename(self.image_path)) and
\* output_path = os.path.join(dirname, f"{name}_compressed{ext}")
RunOutputPath(w) ==
    /\ w \notin DOMAIN outputs
    /\ outputs' = [v \in DOMAIN outputs \cup {w} |->
                     IF v = w THEN output_path(threads[w].image_path) ELSE outputs[v]]
    /\ UNCHANGED <<mainVars, threads, queue, observed, crashed, batchVars,
                   original_size, compressed_size, compression_ratio>>

NextPaths ==
    \/ AddPaths
    \/ \E w \in Workers : RunOutputPath(w)

SpecPaths == Init /\ [][NextPaths]_vars

\* ------------------------------------------------- fair scheduling, no clear
\* Workers are operating-system threads and the GUI thread runs its event
\* loop: every worker step and every posted event is eventually taken.
\* clear_all is never invoked, so no thread is ever terminated.
NextNoClear ==
    \/ AddImages
    \/ DeliverProgress
    \/ DeliverFinished
    \/ \E w \in Workers : WorkerOpenFail(w)
    \/ \E w \in Workers : WorkerProgress(w)
    \/ \E w \in Workers : \E wroteFile \in BOOLEAN : WorkerSaveFail(w, wroteFile)
    \/ \E w \in Workers : WorkerEmit100(w)
    \/ \E w \in Workers : WorkerEmitFinished(w)

\* a running worker eventually takes its next step: the open either fails or
\* is followed by the first progress emission, the save either fails or is
\* followed by the emission of 100
WorkerStep(w) ==
    \/ WorkerOpenFail(w)
    \/ WorkerProgress(w)
    \/ \E wroteFile \in BOOLEAN : WorkerSaveFail(w, wroteFile)
    \/ WorkerEmit100(w)
    \/ WorkerEmitFinished(w)

SpecNoClear ==
    /\ Init
    /\ [][NextNoClear]_vars
    /\ WF_vars(DeliverProgress)
    /\ WF_vars(DeliverFinished)
    /\ \A w \in 1..MaxThreads : WF_vars(w \in Workers /\ WorkerStep(w))

\* ---------------------------------------------------------------- the tasks
Tracked == DOMAIN image_items
TaskState(p) == image_items[p].label
TasksIn(state) == {p \in Tracked : TaskState(p) = state}
Terminal == {LabelCompleted, StatusFailed}
CurrentThreads == {compress_threads[p] : p \in DOMAIN compress_threads}
ThreadsOf(ts, p) == {w \in 1..Len(ts) : ts[w].image_path = p}
CompletedPaths == {completed_images[k].original_path : k \in 1..Len(completed_images)}
Last(seq) == seq[Len(seq)]

\* ---------------------------------------------------------------------- C1
\* C1: add_images with a path that is already tracked leaves that path's task
\* and its thread entry as they were, creates no thread for that path, appends
\* nothing to completed_images and leaves completed_count alone; a submission
\* of tracked paths only changes nothing at all (no task, counter or thread).
C1_ResubmitIsNoOp ==
    [][/\ (~crashed /\ crashed') =>
             \* add_images was left by the exception of ImageItemWidget()
             /\ \A p \in Tracked :
                   /\ p \in DOMAIN image_items'
                   /\ image_items'[p] = image_items[p]
                   /\ compress_threads'[p] = compress_threads[p]
             /\ completed_count' = completed_count
             /\ completed_images' = completed_images
       /\ (~crashed' /\ queue' = queue /\ Len(image_list') >= Len(image_list)) =>
             \* only such a step can be add_images returning
             \A b \in Batches :
                AddImagesWith(b, 0) =>
                   /\ \A p \in Range(b) \cap Tracked :
                         /\ p \in DOMAIN image_items'
                         /\ image_items'[p] = image_items[p]
                         /\ compress_threads'[p] = compress_threads[p]
                         /\ \A w \in 1..Len(threads') :
                               threads'[w].image_path = p
                                  => (w <= Len(threads) /\ threads[w] = threads'[w])
                   /\ completed_count' = completed_count
                   /\ completed_images' = completed_images
                   /\ Range(b) \subseteq Tracked =>
                         /\ UNCHANGED <<mainVars, threads, queue>>
                         /\ Cardinality(DOMAIN image_items') = Cardinality(Tracked)]_vars

\* C1 witness: the application accepts submissions while one path is tracked
\* with a Completed task, another with a Failed task, and each has exactly the
\* one thread that was created for it. A resubmission changes nothing, so this
\* is the state before and after it.
C1_Witness ==
    /\ ~crashed
    /\ \A k \in 1..Len(queue) : ~queue[k].old
    /\ TasksIn(LabelCompleted) # {}
    /\ TasksIn(StatusFailed) # {}
    /\ \A p \in Tracked : Cardinality(ThreadsOf(threads, p)) = 1

\* ---------------------------------------------------------------------- C2
\* C2: each counter equals the number of tracked tasks in its state, so no
\* counter is negative and the three counters plus the Failed tasks add up to
\* the number of tracked tasks.
C2_CountersMatch ==
    /\ pending_count = Cardinality(TasksIn(StatusPending))
    /\ processing_count = Cardinality(TasksIn(StatusProcessing))
    /\ completed_count = Cardinality(TasksIn(LabelCompleted))
    /\ pending_count >= 0 /\ processing_count >= 0 /\ completed_count >= 0
    /\ pending_count + processing_count + completed_count
         + Cardinality(TasksIn(StatusFailed)) = Cardinality(Tracked)

\* ---------------------------------------------------------------------- C3
\* C3: a task that stays tracked changes state only from Pending to Processing
\* and from Processing to Completed or Failed; a Completed or Failed task
\* keeps its state.
C3_Lifecycle ==
    [][\A p \in Tracked \cap DOMAIN image_items' :
          \/ image_items'[p].label = TaskState(p)
          \/ TaskState(p) = StatusPending /\ image_items'[p].label = StatusProcessing
          \/ TaskState(p) = StatusProcessing /\ image_items'[p].label \in Terminal]_vars

\* ---------------------------------------------------------------------- C4
\* C4: of the events a worker has emitted only the last can be
\* compress_finished, a run has returned exactly when it has emitted
\* compress_finished, and the event carries no result exactly when an
\* exception was raised in the run.
C4_OneTerminalEvent ==
    \A w \in Workers :
        LET t == threads[w]
            n == Len(t.sent)
        IN /\ \A k \in 1..(n - 1) : t.sent[k].kind = "progress"
           /\ (t.pc = "done") = (n > 0 /\ t.sent[n].kind = "finished")
           /\ t.raised => t.pc = "done"
           /\ t.pc = "done" => (t.raised = (t.sent[n].result = "None"))
           /\ t.pc \in {"start", "loop", "save", "emitfin", "done", "dead"}

\* C4 witness: a run that was not terminated has returned after an exception
\* that followed some progress events.
C4_Witness ==
    \E w \in Workers :
        /\ ~threads[w].terminated
        /\ threads[w].pc = "done"
        /\ threads[w].raised
        /\ Len(threads[w].sent) > 1

\* ---------------------------------------------------------------------- C5
\* C5: the progress values of one worker that were handed to the slot are in
\* 0..100, start at 0 and never decrease, and a compress_finished event with
\* a result is handed over right after a progress value of 100.
MonotoneProgress(h) ==
    /\ \A k \in 1..Len(h) : h[k].kind = "progress" => h[k].percent \in 0..FullProgress
    /\ (Len(h) > 0 /\ h[1].kind = "progress") => h[1].percent = 0
    /\ \A j, k \in 1..Len(h) :
         (j < k /\ h[j].kind = "progress" /\ h[k].kind = "progress")
            => h[j].percent <= h[k].percent
    /\ \A k \in 1..Len(h) :
         (h[k].kind = "finished" /\ h[k].result = "dict")
            => /\ k > 1
               /\ h[k - 1].kind = "progress"
               /\ h[k - 1].percent = FullProgress

C6_AllTasksEnd == <>[](\A p \in Tracked : TaskState(p) \in Terminal)

\* ---------------------------------------------------------------------- C7
\* C7: handling an event of a worker that was started before the last
\* clear_all changes no task, no counter, not completed_images and not the
\* batch-download flag.
C7_StaleEventsIgnored ==
    [][((DeliverProgress \/ DeliverFinished) /\ Head(queue).wid \notin CurrentThreads)
          => UNCHANGED <<image_items, pending_count, processing_count, completed_count,
                         completed_images, batch_download_enabled>>]_vars

\* ---------------------------------------------------------------------- C8
\* C8: a clear_all step ends with no task, no thread entry, no completed
\* image, all three counters 0 and the batch-download button disabled.
C8_ClearAllEmpties ==
    [][ClearAll =>
          /\ image_items' = <<>>
          /\ image_list' = <<>>
          /\ compress_threads' = <<>>
          /\ completed_images' = <<>>
          /\ pending_count' = 0
          /\ processing_count' = 0
          /\ completed_count' = 0
          /\ batch_download_enabled' = FALSE]_vars

\* C8 witness: clear_all has run over a finished task and a task in flight
\* (its thread was terminated), and nothing was submitted since.
C8_Witness ==
    /\ image_items = <<>>
    /\ compress_threads = <<>>
    /\ completed_images = <<>>
    /\ completed_count = 0
    /\ ~batch_download_enabled
    /\ \E w \in Workers : threads[w].terminated
    /\ \E w \in Workers : threads[w].pc = "done" /\ Last(threads[w].sent).result = "dict"

\* ---------------------------------------------------------------------- C9
\* C9: completed_images holds one outcome for each Completed task and no
\* other, no path twice, and completed_count is its length.
C9_OneOutcomePerCompleted ==
    /\ CompletedPaths = TasksIn(LabelCompleted)
    /\ Len(completed_images) = Cardinality(CompletedPaths)
    /\ completed_count = Len(completed_images)

\* --------------------------------------------------------------------- C10
\* C10: a task's progress is 100 exactly when it is Completed, and a Failed
\* task has no outcome in completed_images.
C10_FullIffCompleted ==
    \A p \in Tracked :
        /\ (image_items[p].progress = FullProgress) = (TaskState(p) = LabelCompleted)
        /\ TaskState(p) = StatusFailed => p \notin CompletedPaths

\* --------------------------------------------------------------------- C11
\* C11: download_image(path) finds an outcome exactly when the task of path
\* is tracked and Completed, and the outcome it finds carries the output path
\* of that path.
C11_FoundIffCompleted ==
    \A p \in Paths :
        /\ Truthy(download_image(p)) = (p \in Tracked /\ TaskState(p) = LabelCompleted)
        /\ Truthy(download_image(p)) => download_image(p).output_path = output_path(p)

\* --------------------------------------------------------------------- C12
\* C12: when create_zip reports success, the archive holds no entry twice and
\* its entries are the output files of the tasks that are Completed (those
\* that were when create_zip began, or those that are when it reports).
C12_ArchiveComplete ==
    [][ZipWriteLast =>
          /\ \A j, k \in 1..Len(zipf') : j # k => zipf'[j] # zipf'[k]
          /\ \/ Range(zipf') = {output_path(p) : p \in zip_tasks}
             \/ Range(zipf') = {output_path(p) : p \in TasksIn(LabelCompleted)}]_vars

\* --------------------------------------------------------------------- C13
\* C13: add_images registers no task and starts no thread for a path whose
\* extension is not one of the name filter, and a submission of such paths
\* only changes no counter.
C13_UnsupportedRejected ==
    [][\A b \in Batches : \A f \in 0..Len(b) :
          AddImagesWith(b, f) =>
             LET rejected == {p \in Range(b) : splitext(p)[2] \notin NameFilter}
             IN /\ \A p \in rejected \ Tracked :
                      /\ p \notin DOMAIN image_items'
                      /\ \A w \in 1..Len(threads') : threads'[w].image_path # p
                /\ Range(b) \subseteq rejected =>
                      UNCHANGED <<pending_count, processing_count, completed_count>>]_vars

C15_ProgressApplied ==
    [][DeliverProgress =>
          LET ev == Head(queue)
          IN (/\ ev.path \in Tracked
              /\ TaskState(ev.path) = StatusProcessing
              /\ compress_threads[ev.path] = ev.wid)
                => image_items'[ev.path].progress = ev.percent]_vars

\* --------------------------------------------------------------------- C16
\* C16: whenever the window is between two operations no tracked task is
\* Pending and pending_count is 0; a thread is only ever created for a path
\* that was not tracked before the step, one thread for each such path, and
\* it is the thread registered for the path.
C16_AllStartedAtOnce ==
    [][~crashed' =>
          LET created == (Len(threads) + 1)..Len(threads')
          IN /\ pending_count' = 0
             /\ \A p \in DOMAIN image_items' :
                   /\ image_items'[p].status # StatusPending
                   /\ image_items'[p].label # StatusPending
             /\ \A w \in created :
                   /\ threads'[w].image_path \notin Tracked
                   /\ threads'[w].image_path \in DOMAIN image_items'
                   /\ compress_threads'[threads'[w].image_path] = w
             /\ \A p \in DOMAIN image_items' \ Tracked :
                   Cardinality({w \in created : threads'[w].image_path = p}) = 1]_vars

\* C16 witness: the thread of one tracked task has ended and its last event
\* was handled, while the thread created later for another tracked task has
\* not emitted anything yet.
C16_Witness ==
    /\ ~crashed
    /\ pending_count = 0
    /\ \E p, q \in Tracked :
          /\ TaskState(p) \in Terminal
          /\ TaskState(q) = StatusProcessing
          /\ compress_threads[p] < compress_threads[q]
          /\ Len(observed[compress_threads[p]]) > 0
          /\ Last(observed[compress_threads[p]]).kind = "finished"
          /\ threads[compress_threads[q]].sent = <<>>

\* --------------------------------------------------------------------- C17
\* C17: add_images does not raise when the file of a path of the batch is
\* missing or unreadable (failAt is the place of that path in the batch): the
\* process lives on and every path of the batch, that one included, is
\* registered and has a thread.
C17_MissingFileNoRaise ==
    [][\A b \in Batches : \A f \in 1..Len(b) :
          AddImagesWith(b, f) =>
             /\ ~crashed'
             /\ \A p \in Range(b) :
                   p \in DOMAIN image_items' /\ p \in DOMAIN compress_threads']_vars

\* --------------------------------------------------------------------- C18
\* C18: when the GUI thread handles a progress or compress_finished event,
\* the task of the event's path, if tracked, is not Pending any more (neither
\* its status nor its label), its thread is registered, and the counters
\* have been moved: pending_count is 0.
C18_ProcessingBeforeEvents ==
    [][(DeliverProgress \/ DeliverFinished) =>
          LET ev == Head(queue)
          IN ev.path \in Tracked =>
                /\ image_items[ev.path].status # StatusPending
                /\ TaskState(ev.path) # StatusPending
                /\ ev.path \in DOMAIN compress_threads
                /\ pending_count = 0]_vars

\* C18 witness: the first event of the thread registered for a tracked task
\* is about to be handled, and the task is Processing.
C18_Witness ==
    /\ ~crashed
    /\ queue # <<>>
    /\ Head(queue).path \in Tracked
    /\ compress_threads[Head(queue).path] = Head(queue).wid
    /\ observed[Head(queue).wid] = <<>>
    /\ TaskState(Head(queue).path) = StatusProcessing
    /\ processing_count > 0

\* --------------------------------------------------------------------- C19
\* C19: the batch download button is enabled exactly when completed_count is
\* above 0; a handled failure leaves it as it is and clear_all disables it.
C19_ButtonIffCompleted ==
    /\ batch_download_enabled = (completed_count > 0)
    /\ completed_count >= 0

\* C19 witness: the button is enabled, one task is Completed and the failure
\* of another task has been handled after that success.
C19_Witness ==
    /\ batch_download_enabled
    /\ completed_count > 0
    /\ \E p, q \in Tracked :
          /\ TaskState(p) = LabelCompleted
          /\ TaskState(q) = StatusFailed

\* --------------------------------------------------------------------- C20
\* C20: a run that has emitted compress_finished with a result has written
\* its output file, and a run that has emitted compress_finished without a
\* result has neither created nor changed the file at its output path.
C20_FailureWritesNothing ==
    \A w \in Workers :
        threads[w].pc = "done" => (threads[w].wrote = ~threads[w].raised)

\* --------------------------------------------------------------------- C21
\* the decimal numeral of a natural number, as a message shows a count
DigitChars == <<"0", "1", "2", "3", "4", "5", "6", "7", "8", "9">>
RECURSIVE Decimal(_)
Decimal(n) ==
    IF n < 10 THEN DigitChars[n + 1] ELSE Decimal(n \div 10) \o DigitChars[(n % 10) + 1]

\* C21: when the write of a batch archive or of a batch copy raises, the
\* entries (files) written before stay as they are, and the text of the error
\* box holds the number of outcomes written before the failure.
C21_FailureCarriesCount ==
    [][(ZipWriteFail \/ SaveCopyFail) =>
          /\ zipf' = zipf
          /\ zip_box' = "error"
          /\ Decimal(Len(zipf)) \in Range(box_text')]_vars

\* --------------------------------------------------------------------- C22
\* C22: the output path a run has computed differs from the output path of
\* every other run of a tracked task and from the input path of every tracked
\* task.
C22_OutputPathsApart ==
    \A w \in DOMAIN outputs :
        /\ \A v \in DOMAIN outputs : v # w => outputs[v] # outputs[w]
        /\ \A p \in Tracked : outputs[w] # p

\* --------------------------------------------------------------------- C23
\* C23: a batch operation reports success only if the output file of every
\* outcome that was in completed_images when it began has been written, the
\* percentage it shows never goes down from one turn of its loop to the next
\* and is never above 100, and the last percentage shown before the success
\* is 100; whatever processEvents() has handled inside the loop.
C23_BatchOverStartSet ==
    [][/\ (ZipWriteLast \/ SaveCopyLast) =>
             /\ \A k \in 1..Len(batch_start) :
                   batch_start[k].output_path \in Range(zipf')
             /\ status_message = <<1000>>
       /\ (ZipWriteNext \/ SaveCopyNext) => status_message'[1] >= status_message[1]
       /\ status_message' # <<>> => status_message'[1] <= 1000]_vars
====
